---- MODULE Spec2Model ----
(***************************************************************************)
(* PanelPachi AI services: the inpainting geometry pipeline                *)
(* (models/inpainting), the /inpaint, /ocr and /translate handlers         *)
(* (api/app.py) and the lazily loaded OCR singleton (models/ocr/ocr.py).   *)
(***************************************************************************)
EXTENDS Integers, Sequences, FiniteSets, TLC

None == "None"

Min(a, b) == IF a <= b THEN a ELSE b
Max(a, b) == IF a >= b THEN a ELSE b

VARIABLES
    \* inpaint_api.main and AnimeLaMa.forward (part 1)
    fwd_pc,        \* position in inpaint_api.main / AnimeLaMa.forward
    fwd_entry,     \* "main": run from files by inpaint_api.main;
                   \* "direct": AnimeLaMa.inpaint called on arrays
    fwd_input,     \* the image and mask as handed in (files or arrays)
    fwd_image,     \* forward's local image
    fwd_mask,      \* forward's local mask
    fwd_hw,        \* forward's h, w = image.shape[:2]
    fwd_inpainted, \* forward's inpainted_image, the model's output tensor
    fwd_cur_res,   \* forward's cur_res
    fwd_file,      \* what cv2.imwrite stored
    \* the selection clamp of process_ocr on its own (part 2)
    clamp_pc,      \* "input", then "clamped"
    clamp_img,     \* <<img_width, img_height>>
    clamp_sel,     \* the selection entry
    clamp_out,     \* the locals left, top, width, height after the clamp
    \* the OCR singleton and the /ocr handler (part 3)
    ocr_instance,      \* ocr.py _ocr_instance: None or the MangaOCR object
    model_loaded,      \* MangaOCR.model_loaded
    model_load_error,  \* MangaOCR.model_load_error
    load_attempts,     \* how many times _load_model went on to load
    ocr_pc,            \* "idle", "loop", "done"
    selections_data,   \* json.loads(selections)
    img_size,          \* <<img_width, img_height>> of the decoded image
    ocr_i,             \* how many selections the loop has consumed
    ocr_locals,        \* the loop body's selection_id, left, top, width, height
    results,           \* the results list
    ocr_trace,         \* per consumed selection: what the loop did with it
    ocr_calls,         \* the calls of the model made for this request
    ocr_resp,          \* the HTTP response of the request
    \* the /inpaint handler and its temp files (part 4)
    script_exists,     \* INPAINTING_SCRIPT.exists()
    tmp_image,         \* /tmp/panelpachi/tmp_image_<pid>.png
    tmp_mask,          \* /tmp/panelpachi/tmp_mask_<pid>.png
    tmp_output,        \* /tmp/panelpachi/tmp_output_<pid>.png
    inp_count,         \* requests received so far
    inp_inflight,      \* requests whose uploads are read (lines 126-127)
                       \* and whose handler waits for the event loop
    inp_req,           \* the request being answered
    inp_resp,          \* its InpaintResponse
    \* the /translate handler (part 5)
    DEEPL_API_KEY,     \* app.py line 61: the key is configured or not
    tr_pc,             \* "idle", "loop", "done"
    items,             \* the request's TranslationItems
    tr_i,              \* how many items the loop has consumed
    tr_results,        \* translate_text's results list
    tr_posts,          \* the requests.post calls made for this request
    tr_replies,        \* what the backend answered to each of them
    tr_resp,           \* the HTTP response of the request
    \* the mask normalization of the /inpaint handler on its own (part 6)
    mask_pc,           \* "input", "normalized", "again"
    mask_pil,          \* the decoded mask
    mask_np            \* the mask after lines 163-170

fwdVars == <<fwd_pc, fwd_entry, fwd_input, fwd_image, fwd_mask, fwd_hw,
             fwd_inpainted, fwd_cur_res, fwd_file>>
clampVars == <<clamp_pc, clamp_img, clamp_sel, clamp_out>>
ocrVars == <<ocr_instance, model_loaded, model_load_error, load_attempts,
             ocr_pc, selections_data, img_size, ocr_i, ocr_locals, results,
             ocr_trace, ocr_calls, ocr_resp>>
inpVars == <<script_exists, tmp_image, tmp_mask, tmp_output, inp_count,
             inp_inflight, inp_req, inp_resp>>
trVars == <<DEEPL_API_KEY, tr_pc, items, tr_i, tr_results, tr_posts,
            tr_replies, tr_resp>>
maskVars == <<mask_pc, mask_pil, mask_np>>
vars == <<fwdVars, clampVars, ocrVars, inpVars, trVars, maskVars>>

FwdIdle ==
    /\ fwd_pc = "off" /\ fwd_entry = None /\ fwd_input = None
    /\ fwd_image = None /\ fwd_mask = None /\ fwd_hw = None
    /\ fwd_inpainted = None /\ fwd_cur_res = None /\ fwd_file = None

ClampIdle ==
    /\ clamp_pc = "off" /\ clamp_img = None /\ clamp_sel = None
    /\ clamp_out = None

OcrIdle ==
    /\ ocr_instance = None /\ model_loaded = FALSE /\ model_load_error = None
    /\ load_attempts = 0 /\ ocr_pc = "off" /\ selections_data = None
    /\ img_size = None /\ ocr_i = 0 /\ ocr_locals = None /\ results = <<>>
    /\ ocr_trace = <<>> /\ ocr_calls = <<>> /\ ocr_resp = None

InpIdle ==
    /\ script_exists = TRUE /\ tmp_image = 0 /\ tmp_mask = 0
    /\ tmp_output = 0 /\ inp_count = 0 /\ inp_inflight = {}
    /\ inp_req = None /\ inp_resp = None

TrIdle ==
    /\ DEEPL_API_KEY = FALSE /\ tr_pc = "off" /\ items = <<>> /\ tr_i = 0
    /\ tr_results = <<>> /\ tr_posts = <<>> /\ tr_replies = <<>>
    /\ tr_resp = None

MaskIdle ==
    /\ mask_pc = "off" /\ mask_pil = None /\ mask_np = None

(***************************************************************************)
(* Part 1.  models/inpainting: helper.py, model.py, inpaint_api.py         *)
(***************************************************************************)

\* Largest image height/width explored, and largest height/width of a mask
\* whose resolution differs from the image's.
MaxDim == 17
MaxMaskDim == 3

\* AnimeLaMa.pad_mod
pad_mod == 8

\* Channel orders: the sequence names the colour held by channel 0, 1, 2.
RGB == <<"R", "G", "B">>
BGR == <<"B", "G", "R">>
GRAY == <<"Y">>

\* cv2.cvtColor(img, COLOR_BGR2RGB) and cv2.cvtColor(img, COLOR_RGB2BGR):
\* both swap channel 0 and channel 2, whatever the array really holds.
cvtColor(img) ==
    [img EXCEPT !.ch = <<img.ch[3], img.ch[2], img.ch[1]>>]

\* An array: h rows, w columns, channels ch; (oy, ox) is where pixel (0, 0)
\* of the caller's original image sits in it.
Array(h, w, ch) == [h |-> h, w |-> w, ch |-> ch, oy |-> 0, ox |-> 0]

\* cv2.imread(path): colour files decode to a BGR array.
imread(file) == Array(file.h, file.w, BGR)

\* cv2.resize(mask, (width, height), INTER_NEAREST)
resize(m, width, height) == [m EXCEPT !.h = height, !.w = width]

\* cv2.copyMakeBorder(img, top, bottom, left, right, BORDER_REFLECT)
copyMakeBorder(img, top, bottom, left, right) ==
    [img EXCEPT !.h = img.h + top + bottom, !.w = img.w + left + right,
                !.oy = img.oy + top, !.ox = img.ox + left]

\* A plausible slip: the trailing "% mod_pad" forgotten.
PadAmountNoWrap(dim, mod_pad) == mod_pad - (dim % mod_pad)

\* helper.py: bottom = (mod_pad - h % mod_pad) % mod_pad, same for right.
PadAmount(dim, mod_pad) == (mod_pad - (dim % mod_pad)) % mod_pad

\* helper.py pad_img_to_modulo
pad_img_to_modulo(img, mod_pad) ==
    copyMakeBorder(img, 0, PadAmount(img.h, mod_pad), 0, PadAmount(img.w, mod_pad))

\* helper.py norm_img followed by unsqueeze(0): [H, W, C] -> [1, C, H, W].
\* The record keeps the spatial size and the channel order; layout says
\* which axis order the buffer is in.
norm_img(img) == [img EXCEPT !.layout = "CHW"]

\* inpainted_image[0].permute(1, 2, 0): back to [H, W, C].
permute_hwc(t) == [t EXCEPT !.layout = "HWC"]

\* A plausible slip: the crop-back left out.
CropNone(img, h, w) == img

\* cur_res[:h, :w]: a slice never grows the array.
Crop(img, h, w) == [img EXCEPT !.h = Min(img.h, h), !.w = Min(img.w, w)]

\* A plausible slip: the RGB -> BGR conversion of the result left out.
DecodeNoSwap(t) == permute_hwc(t)

\* model.py lines 53-55: permute, clip and scale to uint8, RGB2BGR.
Decode(t) == cvtColor(permute_hwc(t))

Dims == 1 .. MaxDim
MaskDims == 1 .. MaxMaskDim

\* The inputs: an image of any size, with a mask of the same resolution or
\* of a small different one.
FwdInputs ==
    { [h |-> h, w |-> w, ch |-> ch, mh |-> m[1], mw |-> m[2]] :
        h \in Dims, w \in Dims, ch \in {RGB, BGR},
        m \in {<<0, 0>>} \cup (MaskDims \X MaskDims) }

MaskH(in) == IF in.mh = 0 THEN in.h ELSE in.mh
MaskW(in) == IF in.mw = 0 THEN in.w ELSE in.mw

WithLayout(a) == [h |-> a.h, w |-> a.w, ch |-> a.ch, oy |-> a.oy, ox |-> a.ox,
                  layout |-> "HWC"]

FwdInit ==
    /\ fwd_entry \in {"main", "direct"}
    /\ fwd_input \in FwdInputs
    \* a file holds a picture, not a channel convention: files are listed
    \* once, under RGB
    /\ fwd_entry = "main" => fwd_input.ch = RGB
    /\ fwd_pc = IF fwd_entry = "main" THEN "main" ELSE "forward"
    /\ fwd_image = IF fwd_entry = "main" THEN None
                   ELSE WithLayout(Array(fwd_input.h, fwd_input.w, fwd_input.ch))
    /\ fwd_mask = IF fwd_entry = "main" THEN None
                  ELSE WithLayout(Array(MaskH(fwd_input), MaskW(fwd_input), GRAY))
    /\ fwd_hw = None
    /\ fwd_inpainted = None
    /\ fwd_cur_res = None
    /\ fwd_file = None
    /\ ClampIdle /\ OcrIdle /\ InpIdle /\ TrIdle /\ MaskIdle

\* helper.py prepare_image_mask: imread + BGR2RGB, imread grayscale, and
\* the mask resized to the image when the shapes differ.
MainPrepare ==
    /\ fwd_pc = "main"
    /\ LET image == cvtColor(imread([h |-> fwd_input.h, w |-> fwd_input.w]))
           mask == Array(MaskH(fwd_input), MaskW(fwd_input), GRAY)
       IN /\ fwd_image' = WithLayout(image)
          /\ fwd_mask' = WithLayout(
                 IF <<mask.h, mask.w>> # <<image.h, image.w>>
                 THEN resize(mask, image.w, image.h) ELSE mask)
    /\ fwd_pc' = "forward"
    /\ UNCHANGED <<fwd_entry, fwd_input, fwd_hw, fwd_inpainted, fwd_cur_res, fwd_file>>
    /\ UNCHANGED <<clampVars, ocrVars, inpVars, trVars, maskVars>>

\* model.py lines 28-34: mask brought to the image's resolution, then
\* h, w = image.shape[:2].
FwdResizeMask ==
    /\ fwd_pc = "forward"
    /\ fwd_mask' = IF <<fwd_mask.h, fwd_mask.w>> # <<fwd_image.h, fwd_image.w>>
                   THEN resize(fwd_mask, fwd_image.w, fwd_image.h)
                   ELSE fwd_mask
    /\ fwd_hw' = <<fwd_image.h, fwd_image.w>>
    /\ fwd_pc' = "resized"
    /\ UNCHANGED <<fwd_entry, fwd_input, fwd_image, fwd_inpainted, fwd_cur_res, fwd_file>>
    /\ UNCHANGED <<clampVars, ocrVars, inpVars, trVars, maskVars>>

\* model.py lines 35-36
FwdPad ==
    /\ fwd_pc = "resized"
    /\ fwd_image' = pad_img_to_modulo(fwd_image, pad_mod)
    /\ fwd_mask' = pad_img_to_modulo(fwd_mask, pad_mod)
    /\ fwd_pc' = "padded"
    /\ UNCHANGED <<fwd_entry, fwd_input, fwd_hw, fwd_inpainted, fwd_cur_res, fwd_file>>
    /\ UNCHANGED <<clampVars, ocrVars, inpVars, trVars, maskVars>>

\* model.py lines 39-44
FwdEncode ==
    /\ fwd_pc = "padded"
    /\ fwd_image' = norm_img(fwd_image)
    /\ fwd_mask' = norm_img(fwd_mask)
    /\ fwd_pc' = "encoded"
    /\ UNCHANGED <<fwd_entry, fwd_input, fwd_hw, fwd_inpainted, fwd_cur_res, fwd_file>>
    /\ UNCHANGED <<clampVars, ocrVars, inpVars, trVars, maskVars>>

\* model.py line 51: the TorchScript model. It keeps the channel positions
\* of its input; its output has the input's spatial size, or, for a model
\* that does not keep it, a single pixel.
FwdInfer ==
    /\ fwd_pc = "encoded"
    /\ \E same \in BOOLEAN :
         fwd_inpainted' = IF same THEN fwd_image
                          ELSE [fwd_image EXCEPT !.h = 1, !.w = 1]
    /\ fwd_pc' = "inferred"
    /\ UNCHANGED <<fwd_entry, fwd_input, fwd_image, fwd_mask, fwd_hw, fwd_cur_res, fwd_file>>
    /\ UNCHANGED <<clampVars, ocrVars, inpVars, trVars, maskVars>>

\* model.py lines 53-55
FwdDecode ==
    /\ fwd_pc = "inferred"
    /\ fwd_cur_res' = Decode(fwd_inpainted)
    /\ fwd_pc' = "decoded"
    /\ UNCHANGED <<fwd_entry, fwd_input, fwd_image, fwd_mask, fwd_hw, fwd_inpainted, fwd_file>>
    /\ UNCHANGED <<clampVars, ocrVars, inpVars, trVars, maskVars>>

\* model.py lines 57-60
FwdCrop ==
    /\ fwd_pc = "decoded"
    /\ fwd_cur_res' = Crop(fwd_cur_res, fwd_hw[1], fwd_hw[2])
    /\ fwd_pc' = "returned"
    /\ UNCHANGED <<fwd_entry, fwd_input, fwd_image, fwd_mask, fwd_hw, fwd_inpainted, fwd_file>>
    /\ UNCHANGED <<clampVars, ocrVars, inpVars, trVars, maskVars>>

\* inpaint_api.py line 67: cv2.imwrite reads the array as BGR, so the file
\* shows colour c where the array's channel order says BGR holds c.
MainWrite ==
    /\ fwd_pc = "returned"
    /\ fwd_entry = "main"
    /\ fwd_file' = [h |-> fwd_cur_res.h, w |-> fwd_cur_res.w,
                    shown |-> <<fwd_cur_res.ch[3], fwd_cur_res.ch[2], fwd_cur_res.ch[1]>>]
    /\ fwd_pc' = "written"
    /\ UNCHANGED <<fwd_entry, fwd_input, fwd_image, fwd_mask, fwd_hw, fwd_inpainted, fwd_cur_res>>
    /\ UNCHANGED <<clampVars, ocrVars, inpVars, trVars, maskVars>>

FwdNext ==
    \/ MainPrepare
    \/ FwdResizeMask
    \/ FwdPad
    \/ FwdEncode
    \/ FwdInfer
    \/ FwdDecode
    \/ FwdCrop
    \/ MainWrite

SpecForward == FwdInit /\ [][FwdNext]_vars

(***************************************************************************)
(* Claims about part 1                                                     *)
(***************************************************************************)

\* What pad_img_to_modulo must have made of a buffer that had dimension dim:
\* a multiple of the stride, at least dim and less than dim + stride, reached
\* by adding (stride - dim % stride) % stride.
PaddedRight(dim, padded) ==
    /\ padded % pad_mod = 0
    /\ dim <= padded
    /\ padded < dim + pad_mod
    /\ padded - dim = (pad_mod - (dim % pad_mod)) % pad_mod
    /\ (dim % pad_mod = 0) => padded = dim

\* C1: for every image and mask of height/width >= 1, after
\* pad_img_to_modulo with stride 8 each padded dimension is an exact multiple
\* of 8 with dim <= padded < dim + 8, the rows/columns are added on the
\* bottom/right only (pixel (0, 0) stays at (0, 0)), and nothing is added to
\* an aligned dimension.
C1_PadToStride ==
    fwd_pc = "padded" =>
        /\ PaddedRight(fwd_hw[1], fwd_image.h)
        /\ PaddedRight(fwd_hw[2], fwd_image.w)
        /\ PaddedRight(fwd_hw[1], fwd_mask.h)
        /\ PaddedRight(fwd_hw[2], fwd_mask.w)
        /\ fwd_image.oy = 0 /\ fwd_image.ox = 0
        /\ fwd_mask.oy = 0 /\ fwd_mask.ox = 0

\* C1's case: a height that needs padding beside a width that needs none.
C1_Witness ==
    /\ fwd_pc = "padded"
    /\ fwd_hw[1] % pad_mod # 0
    /\ fwd_image.h > fwd_hw[1]
    /\ fwd_hw[2] = 2 * pad_mod
    /\ fwd_image.w = fwd_hw[2]

\* The model kept the spatial size of the tensor it was given.
ModelKeptSize ==
    /\ fwd_inpainted.h = fwd_image.h
    /\ fwd_inpainted.w = fwd_image.w

\* C2: for every image of height h and width w and every mask, of the same
\* or of another resolution: the mask is at the image's resolution before
\* padding, image and mask have identical padded dimensions, and, when the
\* model returns a tensor of the padded size, inpaint returns an image of
\* exactly h by w that starts at the original's pixel (0, 0).
C2_ShapeRoundTrip ==
    /\ fwd_pc \in {"resized", "padded", "encoded"} =>
           /\ fwd_mask.h = fwd_image.h
           /\ fwd_mask.w = fwd_image.w
    /\ fwd_pc = "resized" =>
           /\ fwd_image.h = fwd_input.h
           /\ fwd_image.w = fwd_input.w
    /\ (fwd_pc \in {"returned", "written"} /\ ModelKeptSize) =>
           /\ fwd_cur_res.h = fwd_input.h
           /\ fwd_cur_res.w = fwd_input.w
           /\ fwd_cur_res.oy = 0 /\ fwd_cur_res.ox = 0

\* C2's case: a mask of another resolution, an image that needed padding on
\* both axes, a model that kept the size, and the result handed back.
C2_Witness ==
    /\ fwd_pc = "returned"
    /\ ModelKeptSize
    /\ fwd_input.mh # 0
    /\ <<fwd_input.mh, fwd_input.mw>> # <<fwd_input.h, fwd_input.w>>
    /\ fwd_image.h > fwd_input.h
    /\ fwd_image.w > fwd_input.w
    /\ fwd_cur_res.h = fwd_input.h
    /\ fwd_cur_res.w = fwd_input.w

\* C3 as stated: forward returns its result in the channel order of the
\* image it was given (RGB in, RGB out; BGR in, BGR out).
C3_SameChannelOrder ==
    fwd_pc = "returned" => fwd_cur_res.ch = fwd_input.ch

\* C3 amended: forward returns the opposite channel order of the image it
\* was given (RGB in, BGR out, as its docstring says; BGR in, RGB out); the
\* colours are preserved end to end only by inpaint_api.main, which turns
\* the BGR array of cv2.imread into RGB before the call and hands the BGR
\* result to cv2.imwrite, so that the written file shows the true colours.
C3_SwappedChannelOrder ==
    /\ fwd_pc \in {"returned", "written"} =>
           fwd_cur_res.ch =
               <<fwd_input.ch[3], fwd_input.ch[2], fwd_input.ch[1]>>
    /\ (fwd_pc = "forward" /\ fwd_entry = "main") => fwd_image.ch = RGB
    /\ fwd_pc = "written" => fwd_file.shown = RGB

\* C3's case: an RGB image went through forward and came back BGR.
C3_Witness ==
    /\ fwd_pc = "returned"
    /\ fwd_input.ch = RGB
    /\ fwd_cur_res.ch = BGR

(***************************************************************************)
(* Part 2.  api/app.py process_ocr: one selection, from the JSON entry to  *)
(* the clamped locals                                                      *)
(***************************************************************************)

\* Largest image side, largest coordinate and largest negative coordinate
\* (in whole pixels) explored for the clamp on its own.
MaxImg == 3
MaxCoord == 5
MaxNeg == 2

\* A JSON value of a selection field. Numbers are carried in halves (v = 3 is
\* the JSON number 1.5), so that int() has something to truncate.
Num(v) == [k |-> "num", v |-> v]
Missing == [k |-> "missing", v |-> 0]
Null == [k |-> "null", v |-> 0]
Text == [k |-> "text", v |-> 0]
Px(n) == Num(2 * n)

\* The id of an entry that has none.
MissingId == "<absent>"

\* int(x) of a Python number: truncation towards zero.
PyInt(v) == IF v >= 0 THEN v \div 2 ELSE -((-v) \div 2)

\* int(selection.get(key, default)) raises for null (TypeError) and for a
\* string that is no integer literal (ValueError).
IntRaises(field) == field.k \in {"null", "text"}

\* int(selection.get(key, default))
GetInt(field, default) ==
    IF field.k = "missing" THEN default ELSE PyInt(field.v)

\* selection.get("id", "unknown")
GetId(sel) == IF sel.id = MissingId THEN "unknown" ELSE sel.id

\* app.py lines 357-361 raise: selection.get on an entry that is no JSON
\* object (AttributeError), or one of the four int() calls.
SelectionRaises(sel) ==
    \/ ~sel.obj
    \/ IntRaises(sel.left) \/ IntRaises(sel.top)
    \/ IntRaises(sel.width) \/ IntRaises(sel.height)

\* A plausible slip: the width clamped to the image width, not to what is
\* left of it to the right of left.
ClampNoOffset(left, top, width, height, img_width, img_height) ==
    [left |-> Max(0, left), top |-> Max(0, top),
     width |-> Min(width, img_width), height |-> Min(height, img_height)]

\* app.py lines 366-376: left = max(0, left); top = max(0, top);
\* width = min(width, img_width - left); height = min(height, img_height - top)
Clamp(left, top, width, height, img_width, img_height) ==
    [left |-> Max(0, left), top |-> Max(0, top),
     width |-> Min(width, img_width - Max(0, left)),
     height |-> Min(height, img_height - Max(0, top))]

\* app.py lines 357-376: the loop body's locals for an entry whose fields
\* convert.
Locals(sel, img_width, img_height) ==
    LET c == Clamp(GetInt(sel.left, 0), GetInt(sel.top, 0),
                   GetInt(sel.width, 100), GetInt(sel.height, 100),
                   img_width, img_height)
    IN [selection_id |-> GetId(sel), left |-> c.left, top |-> c.top,
        width |-> c.width, height |-> c.height]

\* A plausible slip: only negative sizes rejected.
IsInvalidStrict(loc) == loc.width < 0 \/ loc.height < 0

\* app.py line 379: if width <= 0 or height <= 0
IsInvalid(loc) == loc.width <= 0 \/ loc.height <= 0

\* The numbers a field of the clamp's inputs takes: every whole pixel from
\* -MaxNeg to MaxCoord, the fractions -0.5, 0.5 and 1.5, and no value at all.
ClampFields ==
    {Px(n) : n \in (0 - MaxNeg) .. MaxCoord}
        \cup {Num(-1), Num(1), Num(3), Missing}

ClampSelections ==
    { [obj |-> TRUE, id |-> "a", left |-> l, top |-> t, width |-> w, height |-> h] :
        l \in ClampFields, t \in ClampFields, w \in ClampFields, h \in ClampFields }

ClampInit ==
    /\ clamp_pc = "input"
    /\ clamp_img \in (1 .. MaxImg) \X (1 .. MaxImg)
    /\ clamp_sel \in ClampSelections
    /\ clamp_out = None
    /\ FwdIdle /\ OcrIdle /\ InpIdle /\ TrIdle /\ MaskIdle

\* app.py lines 357-376 on one entry
ClampApply ==
    /\ clamp_pc = "input"
    /\ clamp_pc' = "clamped"
    /\ clamp_out' = Locals(clamp_sel, clamp_img[1], clamp_img[2])
    /\ UNCHANGED <<clamp_img, clamp_sel>>
    /\ UNCHANGED <<fwdVars, ocrVars, inpVars, trVars, maskVars>>

ClampNext == ClampApply

SpecClamp == ClampInit /\ [][ClampNext]_vars

\* The bounds the claim speaks of, from the clamped locals.
Right(loc) == loc.left + loc.width
Bottom(loc) == loc.top + loc.height

MaxSel == 2
OcrImageSide == 12

\* ocr.py validate_image: image.width < 10 or image.height < 10
MinOcrSize == 10

\* app.py example_texts, lines 399-407, in the order of the list. The
\* strings stand for the Japanese ones of the source.
example_texts ==
    <<"konnichiwa", "sayounara", "genki desu ka", "watashi wa genki desu",
      "nihongo wo benkyou shiteimasu", "manga ga suki desu",
      "totemo omoshiroi desu ne">>

\* What tokenizer.batch_decode can give: text, nothing, or white space.
GeneratedTexts == {"text", "", " "}

\* str.strip() on the strings above.
Strip(t) == IF t \in {"", " "} THEN "" ELSE t

\* str(e) of a failed load.
LoadErrors == {"Failed to load VisionEncoderDecoderModel"}

\* Python truthiness of model_load_error: None and "" are false.
Truthy(x) == x # None /\ x # ""

\* What the surroundings decide in one call of the model: whether a load
\* that is attempted succeeds, and what becomes of the crop: it is found
\* mostly white, or the feature extractor, generate or batch_decode raise,
\* or a text is decoded.
CallEnvs ==
    [load : {"ok"} \cup LoadErrors,
     out : {"white", "raise"} \cup GeneratedTexts]

\* ocr.py _load_model, lines 31-72, as called from __call__ when
\* model_loaded is false: nothing when a load error is cached, else one load.
\* Gives the new model_loaded, model_load_error, load_attempts and whether
\* it raised.
LoadModel(loaded, error, attempts, env) ==
    IF loaded \/ Truthy(error)
    THEN [loaded |-> loaded, error |-> error, attempts |-> attempts,
          raised |-> FALSE]
    ELSE IF env.load = "ok"
    THEN [loaded |-> TRUE, error |-> error, attempts |-> attempts + 1,
          raised |-> FALSE]
    ELSE [loaded |-> FALSE, error |-> env.load, attempts |-> attempts + 1,
          raised |-> TRUE]

\* ocr.py validate_image, lines 74-108
ValidateImage(crop, env) ==
    /\ crop[1] >= MinOcrSize
    /\ crop[2] >= MinOcrSize
    /\ env.out # "white"

\* ocr.py MangaOCR.__call__, lines 110-200, on a PIL image of size crop:
\* the text, or None.
CallReturn(crop, env, m) ==
    IF m.raised THEN None
    ELSE IF Truthy(m.error) THEN None
    ELSE IF ~ValidateImage(crop, env) THEN None
    ELSE IF env.out = "raise" THEN None
    ELSE IF env.out = "" \/ Strip(env.out) = "" THEN None
    ELSE env.out

\* ocr.py MangaOCR.__call__, lines 120-125 and 169-188: the message of the
\* exception that was raised, and caught, inside the call; "" when none was.
CallRaised(crop, env, m) ==
    IF m.raised THEN m.error
    ELSE IF Truthy(m.error) THEN ""
    ELSE IF ~ValidateImage(crop, env) THEN ""
    ELSE IF env.out = "raise" THEN "Error generating text"
    ELSE ""

\* numpy's a[lo:hi] on an axis of length n, for 0 <= lo: its length.
SliceLen(lo, hi, n) == Max(0, Min(hi, n) - Min(lo, n))

\* app.py line 386: img_array[top:top+height, left:left+width], as
\* <<width, height>> of the crop.
CropSize(loc, img) ==
    <<SliceLen(loc.left, loc.left + loc.width, img[1]),
      SliceLen(loc.top, loc.top + loc.height, img[2])>>

\* A plausible slip: a MangaOCR object built for every request.
NewInstanceEachCall(inst, loaded, error) ==
    [inst |-> "MangaOCR", loaded |-> FALSE, error |-> None]

\* ocr.py get_ocr_instance, lines 205-210, with MangaOCR.__init__, lines
\* 28-29: the module's instance, built unloaded when there is none yet.
get_ocr_instance(inst, loaded, error) ==
    IF inst = None
    THEN [inst |-> "MangaOCR", loaded |-> FALSE, error |-> None]
    ELSE [inst |-> inst, loaded |-> loaded, error |-> error]

OCRItem(id, text) == [id |-> id, text |-> text]

\* A selection entry of a request.
Entry(id, l, t, w, h) ==
    [obj |-> TRUE, id |-> id, left |-> l, top |-> t, width |-> w, height |-> h]

\* The entries a request is made of: one that covers the whole image, one
\* of width 0, one that starts right of the image, one that starts left of
\* and above the image, one with a null left, one with a width that is no
\* number, one with no field at all, and one that is no JSON object.
OcrEntries ==
    { Entry("a", Px(0), Px(0), Px(OcrImageSide), Px(OcrImageSide)),
      Entry("a", Px(5), Px(5), Px(0), Px(7)),
      Entry("b", Px(OcrImageSide + 2), Px(0), Px(5), Px(5)),
      Entry("b", Px(-2), Px(-1), Px(5), Px(OcrImageSide)),
      Entry("a", Null, Px(0), Px(5), Px(5)),
      Entry("a", Px(0), Px(0), Text, Px(5)),
      Entry(MissingId, Missing, Missing, Missing, Missing),
      [obj |-> FALSE, id |-> MissingId, left |-> Missing, top |-> Missing,
       width |-> Missing, height |-> Missing] }

SeqsUpTo(S, n) == UNION { [1 .. k -> S] : k \in 0 .. n }

OcrInit ==
    /\ ocr_instance = None
    /\ model_loaded = FALSE
    /\ model_load_error = None
    /\ load_attempts = 0
    /\ ocr_pc = "idle"
    /\ selections_data = <<>>
    /\ img_size = <<0, 0>>
    /\ ocr_i = 0
    /\ ocr_locals = None
    /\ results = <<>>
    /\ ocr_trace = <<>>
    /\ ocr_calls = <<>>
    /\ ocr_resp = [status |-> 0, body |-> <<>>, detail |-> ""]
    /\ FwdIdle /\ ClampIdle /\ InpIdle /\ TrIdle /\ MaskIdle

\* A request's variables as a new request finds them.
OcrFresh ==
    /\ ocr_i' = 0
    /\ ocr_locals' = None
    /\ results' = <<>>
    /\ ocr_trace' = <<>>
    /\ ocr_calls' = <<>>

\* app.py line 422: raise HTTPException(status_code=500, ...)
Http500(cause) ==
    [status |-> 500, body |-> <<>>, detail |-> "OCR processing failed: " \o cause]

\* app.py lines 336-338: json.loads(selections) raises.
OcrRejectJson ==
    /\ ocr_pc = "idle"
    /\ OcrFresh
    /\ selections_data' = <<>>
    /\ img_size' = <<0, 0>>
    /\ ocr_resp' = Http500("JSONDecodeError")
    /\ ocr_pc' = "done"
    /\ UNCHANGED <<ocr_instance, model_loaded, model_load_error, load_attempts>>
    /\ UNCHANGED <<fwdVars, clampVars, inpVars, trVars, maskVars>>

\* app.py lines 338-344: the selections parse, Image.open raises.
OcrRejectImage ==
    /\ ocr_pc = "idle"
    /\ OcrFresh
    /\ selections_data' \in SeqsUpTo(OcrEntries, MaxSel)
    /\ img_size' = <<0, 0>>
    /\ ocr_resp' = Http500("UnidentifiedImageError")
    /\ ocr_pc' = "done"
    /\ UNCHANGED <<ocr_instance, model_loaded, model_load_error, load_attempts>>
    /\ UNCHANGED <<fwdVars, clampVars, inpVars, trVars, maskVars>>

\* app.py lines 336-353 and ocr.py get_ocr_instance: selections and image
\* decode, the singleton is created if there is none, results = [].
OcrReceive ==
    /\ ocr_pc = "idle"
    /\ OcrFresh
    /\ selections_data' \in SeqsUpTo(OcrEntries, MaxSel)
    /\ img_size' = <<OcrImageSide, OcrImageSide>>
    /\ LET ocr_model == get_ocr_instance(ocr_instance, model_loaded,
                                          model_load_error)
       IN /\ ocr_instance' = ocr_model.inst
          /\ model_loaded' = ocr_model.loaded
          /\ model_load_error' = ocr_model.error
    /\ ocr_resp' = [status |-> 0, body |-> <<>>, detail |-> ""]
    /\ ocr_pc' = "loop"
    /\ UNCHANGED load_attempts
    /\ UNCHANGED <<fwdVars, clampVars, inpVars, trVars, maskVars>>

\* The entry the loop is about to take.
NextEntry == selections_data[ocr_i + 1]

InLoop == ocr_pc = "loop" /\ ocr_i < Len(selections_data)

\* app.py lines 357-361 raise: the exception leaves the loop for the outer
\* handler, lines 420-422.
OcrIterRaise ==
    /\ InLoop
    /\ SelectionRaises(NextEntry)
    /\ ocr_resp' = Http500("selection")
    /\ ocr_pc' = "done"
    /\ UNCHANGED <<ocr_instance, model_loaded, model_load_error, load_attempts,
                   selections_data, img_size, ocr_i, ocr_locals, results,
                   ocr_trace, ocr_calls>>
    /\ UNCHANGED <<fwdVars, clampVars, inpVars, trVars, maskVars>>

\* A plausible slip: results.insert(0, item).
PrependItem(list, item) == <<item>> \o list

\* results.append(item)
AppendItem(list, item) == Append(list, item)

\* app.py lines 357-382: the selection is invalid after the clamp.
OcrIterInvalid ==
    /\ InLoop
    /\ ~SelectionRaises(NextEntry)
    /\ LET loc == Locals(NextEntry, img_size[1], img_size[2])
       IN /\ IsInvalid(loc)
          /\ ocr_locals' = loc
          /\ results' = AppendItem(results,
                 OCRItem(loc.selection_id, "Error: Invalid selection size"))
          /\ ocr_trace' = Append(ocr_trace,
                 [kind |-> "invalid", ret |-> None, exc |-> ""])
    /\ ocr_i' = ocr_i + 1
    /\ UNCHANGED <<ocr_instance, model_loaded, model_load_error, load_attempts,
                   ocr_pc, selections_data, img_size, ocr_calls, ocr_resp>>
    /\ UNCHANGED <<fwdVars, clampVars, inpVars, trVars, maskVars>>

\* str(e) of what Image.fromarray raises on an array it cannot take.
CropErrors == {"Cannot handle this data type"}

\* app.py line 415: f"Error: {str(e)}"
ErrorText(msg) == "Error: " \o msg

\* app.py lines 357-389 and 413-415: Image.fromarray (or the crop) raises;
\* the inner handler appends the error item.
OcrIterCropError ==
    /\ InLoop
    /\ ~SelectionRaises(NextEntry)
    /\ \E e \in CropErrors :
       LET loc == Locals(NextEntry, img_size[1], img_size[2])
       IN /\ ~IsInvalid(loc)
          /\ ocr_locals' = loc
          /\ results' = AppendItem(results,
                 OCRItem(loc.selection_id, ErrorText(e)))
          /\ ocr_trace' = Append(ocr_trace,
                 [kind |-> "error", ret |-> None, exc |-> e])
    /\ ocr_i' = ocr_i + 1
    /\ UNCHANGED <<ocr_instance, model_loaded, model_load_error, load_attempts,
                   ocr_pc, selections_data, img_size, ocr_calls, ocr_resp>>
    /\ UNCHANGED <<fwdVars, clampVars, inpVars, trVars, maskVars>>

\* app.py lines 396-410: the text put in the item for what the model
\* returned; pick is random.choice's index.
ItemText(ret, pick) ==
    IF ret = None \/ Strip(ret) = "" THEN example_texts[pick] ELSE ret

\* app.py lines 357-412 with ocr.py __call__: the selection is valid, it is
\* cropped and passed to the model, which loads itself on first use.
OcrIterRecognize ==
    /\ InLoop
    /\ ~SelectionRaises(NextEntry)
    /\ \E env \in CallEnvs, pick \in 1 .. Len(example_texts) :
       LET loc == Locals(NextEntry, img_size[1], img_size[2])
           crop == CropSize(loc, img_size)
           m == IF model_loaded
                THEN [loaded |-> TRUE, error |-> model_load_error,
                      attempts |-> load_attempts, raised |-> FALSE]
                ELSE LoadModel(model_loaded, model_load_error, load_attempts, env)
           ret == CallReturn(crop, env, m)
       IN /\ ~IsInvalid(loc)
          /\ ocr_locals' = loc
          /\ model_loaded' = m.loaded
          /\ model_load_error' = m.error
          /\ load_attempts' = m.attempts
          /\ ocr_calls' = Append(ocr_calls,
                 [idx |-> ocr_i + 1, at |-> <<loc.left, loc.top>>, crop |-> crop,
                  unavailable |-> Truthy(m.error)])
          /\ results' = AppendItem(results,
                 OCRItem(loc.selection_id, ItemText(ret, pick)))
          /\ ocr_trace' = Append(ocr_trace,
                 [kind |-> IF ret = None \/ Strip(ret) = "" THEN "placeholder"
                           ELSE "text",
                  ret |-> ret,
                  exc |-> CallRaised(crop, env, m)])
    /\ ocr_i' = ocr_i + 1
    /\ UNCHANGED <<ocr_instance, ocr_pc, selections_data, img_size, ocr_resp>>
    /\ UNCHANGED <<fwdVars, clampVars, inpVars, trVars, maskVars>>

\* app.py line 418: return results
OcrReturn ==
    /\ ocr_pc = "loop"
    /\ ocr_i = Len(selections_data)
    /\ ocr_resp' = [status |-> 200, body |-> results, detail |-> ""]
    /\ ocr_pc' = "done"
    /\ UNCHANGED <<ocr_instance, model_loaded, model_load_error, load_attempts,
                   selections_data, img_size, ocr_i, ocr_locals, results,
                   ocr_trace, ocr_calls>>
    /\ UNCHANGED <<fwdVars, clampVars, inpVars, trVars, maskVars>>

\* The response is on its way and the request's locals are gone; the
\* singleton stays.
OcrFinish ==
    /\ ocr_pc = "done"
    /\ OcrFresh
    /\ selections_data' = <<>>
    /\ img_size' = <<0, 0>>
    /\ ocr_resp' = [status |-> 0, body |-> <<>>, detail |-> ""]
    /\ ocr_pc' = "idle"
    /\ UNCHANGED <<ocr_instance, model_loaded, model_load_error, load_attempts>>
    /\ UNCHANGED <<fwdVars, clampVars, inpVars, trVars, maskVars>>

OcrNext ==
    \/ OcrRejectJson
    \/ OcrRejectImage
    \/ OcrReceive
    \/ OcrIterRaise
    \/ OcrIterInvalid
    \/ OcrIterCropError
    \/ OcrIterRecognize
    \/ OcrReturn
    \/ OcrFinish

SpecOcr == OcrInit /\ [][OcrNext]_vars

(***************************************************************************)
(* Claims about part 3                                                     *)
(***************************************************************************)

\* How many times the model was called for selection k of the request.
CallsOf(k) == Cardinality({j \in 1 .. Len(ocr_calls) : ocr_calls[j].idx = k})

\* The call made for selection k.
CallOf(k) == CHOOSE j \in 1 .. Len(ocr_calls) : ocr_calls[j].idx = k

InvalidSizeText == "Error: Invalid selection size"

\* C6: a selection whose clamped width or height is <= 0 is never passed to
\* the model and yields exactly {id, "Error: Invalid selection size"}; every
\* valid selection consumed before or after it gets an item of its own, is
\* passed to the model exactly once, as the crop of its clamped rectangle,
\* and carries the text the model returned for it when it returned one. (The
\* one valid selection that is not passed on is one whose crop raised: it
\* gets its error item.)
C6_InvalidIsolated ==
    ocr_pc \in {"loop", "done"} =>
        /\ Len(results) = Len(ocr_trace)
        /\ Len(ocr_trace) = ocr_i
        /\ \A k \in 1 .. Len(ocr_trace) :
             LET sel == selections_data[k]
                 loc == Locals(sel, img_size[1], img_size[2])
             IN IF loc.width <= 0 \/ loc.height <= 0
                THEN /\ CallsOf(k) = 0
                     /\ results[k] = [id |-> GetId(sel), text |-> InvalidSizeText]
                ELSE /\ results[k].id = GetId(sel)
                     /\ results[k].text # InvalidSizeText
                     /\ \/ /\ ocr_trace[k].kind = "error"
                           /\ CallsOf(k) = 0
                        \/ /\ ocr_trace[k].kind \in {"text", "placeholder"}
                           /\ CallsOf(k) = 1
                           /\ ocr_calls[CallOf(k)].crop = <<loc.width, loc.height>>
                           /\ ocr_trace[k].kind = "text" =>
                                  results[k].text = ocr_trace[k].ret

\* C6's case: an answered request whose first selection was invalid and whose
\* second one, valid, got the text the model read in it.
C6_Witness ==
    /\ ocr_pc = "done"
    /\ ocr_resp.status = 200
    /\ Len(ocr_trace) = 2
    /\ ocr_trace[1].kind = "invalid"
    /\ ocr_trace[2].kind = "text"
    /\ ocr_resp.body[1].text = InvalidSizeText
    /\ ocr_resp.body[2].text = "text"

\* C7: whenever process_ocr returns a result list for n selections, the list
\* has exactly n items and item i carries the id of selection i, whatever
\* became of each selection; the model is called on the selections in input
\* order, one after the other.
C7_OrderedOnePerSelection ==
    /\ ocr_pc = "loop" => Len(results) = ocr_i
    /\ (ocr_pc = "done" /\ ocr_resp.status = 200) =>
           /\ Len(ocr_resp.body) = Len(selections_data)
           /\ \A i \in 1 .. Len(selections_data) :
                  ocr_resp.body[i].id = GetId(selections_data[i])
    /\ \A j \in 1 .. Len(ocr_calls) : \A k \in 1 .. Len(ocr_calls) :
           j < k => ocr_calls[j].idx < ocr_calls[k].idx

\* C7's case: a list returned for two selections with different ids, one
\* answered with a substituted text and one with a per-item error.
C7_Witness ==
    /\ ocr_pc = "done"
    /\ ocr_resp.status = 200
    /\ Len(ocr_resp.body) = 2
    /\ ocr_resp.body[1].id = "b"
    /\ ocr_resp.body[2].id = "a"
    /\ ocr_trace[1].kind = "placeholder"
    /\ ocr_trace[2].kind = "error"

\* C8: no content of a single selection entry makes the whole /ocr call
\* fail: once the selections JSON and the image have decoded, the call
\* returns one item per entry.
C8_MalformedEntryIsolated ==
    (ocr_pc = "done" /\ img_size # <<0, 0>>) =>
        /\ ocr_resp.status = 200
        /\ Len(ocr_resp.body) = Len(selections_data)

\* C9: with the model unavailable (its load failed, model_load_error set),
\* a call with a valid selection fails as a whole; it never returns a
\* result list.
C9_UnavailableFailsCall ==
    (ocr_pc = "done" /\ \E j \in 1 .. Len(ocr_calls) : ocr_calls[j].unavailable)
        => ocr_resp.status # 200

\* C10: whenever the model returns None, "" or white space for a crop, the
\* text of that selection is one fixed marker: any two such selections
\* carry the same text.
C10_FixedMarker ==
    \A j \in 1 .. Len(ocr_trace) : \A k \in 1 .. Len(ocr_trace) :
        (ocr_trace[j].kind = "placeholder" /\ ocr_trace[k].kind = "placeholder")
            => results[j].text = results[k].text

\* The message of the exception raised while selection k was cropped or
\* recognized; "" when none was.
RaisedFor(k) == ocr_trace[k].exc

\* C11: an exception raised while one valid selection is cropped or
\* recognized becomes the item {id, "Error: <message>"} of that selection.
C11_ExceptionBecomesErrorItem ==
    \A k \in 1 .. Len(ocr_trace) :
        RaisedFor(k) # "" =>
            results[k] = OCRItem(GetId(selections_data[k]), ErrorText(RaisedFor(k)))

\* The request carries a validation error: the selections JSON or the image
\* did not decode, or a selection lacks a field or has a negative number.
OcrValidationError ==
    \/ img_size = <<0, 0>>
    \/ \E k \in 1 .. Len(selections_data) :
         LET sel == selections_data[k]
         IN /\ sel.obj
            /\ \/ sel.id = MissingId
               \/ \E f \in {sel.left, sel.top, sel.width, sel.height} :
                    \/ f = Missing
                    \/ f.k = "num" /\ f.v < 0

\* C16: a request with a validation error is answered with a client error
\* (4xx) and before any call of the model; never with a server error, a
\* success status, or a value that was defaulted or clamped.
C16_ValidationIsClientError ==
    (ocr_pc = "done" /\ OcrValidationError) =>
        /\ ocr_resp.status >= 400
        /\ ocr_resp.status <= 499
        /\ Len(ocr_calls) = 0

\* C18: one MangaOCR instance serves every request of the process and its
\* load is attempted at most once: once loaded it stays loaded and no load
\* is attempted again; once model_load_error is set it stays set, no load is
\* attempted again and every later call of the model returns None.
C18_LoadAttemptedOnce ==
    [][ /\ load_attempts' <= 1
        /\ ocr_instance # None => ocr_instance' = ocr_instance
        /\ model_loaded =>
               /\ model_loaded'
               /\ load_attempts' = load_attempts
        /\ Truthy(model_load_error) =>
               /\ model_load_error' = model_load_error
               /\ ~model_loaded'
               /\ load_attempts' = load_attempts
               /\ Len(ocr_calls') > Len(ocr_calls) =>
                      /\ ocr_calls'[Len(ocr_calls')].unavailable
                      /\ ocr_trace'[Len(ocr_trace')].ret = None
      ]_vars

\* C18's case: a request made after the load failed in an earlier request;
\* its two selections were passed to the model, which returned None for each
\* and did not load again.
C18_Witness ==
    /\ ocr_pc = "done"
    /\ Truthy(model_load_error)
    /\ ~model_loaded
    /\ load_attempts = 1
    /\ Len(ocr_calls) = 2
    /\ ocr_calls[1].unavailable /\ ocr_calls[2].unavailable
    /\ ocr_trace[1].exc = "" /\ ocr_trace[2].exc = ""
    /\ ocr_trace[1].ret = None /\ ocr_trace[2].ret = None

\* The rectangle the client asked for, in half pixels: <<left, top, right,
\* bottom>>; a field that is absent counts with the handler's default.
Requested(sel) ==
    LET f(field, default) == IF field.k = "num" THEN field.v ELSE 2 * default
    IN <<f(sel.left, 0), f(sel.top, 0),
         f(sel.left, 0) + f(sel.width, 100),
         f(sel.top, 0) + f(sel.height, 100)>>

\* C19: the rectangle cropped for a selection that reaches the model is not
\* empty, lies inside the image and lies inside the rectangle the client
\* asked for.
C19_CropWithinRequest ==
    \A j \in 1 .. Len(ocr_calls) :
        LET c == ocr_calls[j]
            req == Requested(selections_data[c.idx])
        IN /\ c.crop[1] > 0 /\ c.crop[2] > 0
           /\ 0 <= c.at[1] /\ c.at[1] + c.crop[1] <= img_size[1]
           /\ 0 <= c.at[2] /\ c.at[2] + c.crop[2] <= img_size[2]
           /\ req[1] <= 2 * c.at[1] /\ 2 * (c.at[1] + c.crop[1]) <= req[3]
           /\ req[2] <= 2 * c.at[2] /\ 2 * (c.at[2] + c.crop[2]) <= req[4]

(***************************************************************************)
(* Part 4.  api/app.py inpaint_image (the /inpaint handler), its temp      *)
(* files and the inpaint_api.py subprocess                                 *)
(***************************************************************************)

\* Most /inpaint requests one server process is followed through.
MaxInpaintRequests == 4

\* A temp file holds 0 when it does not exist, else the number of the
\* request whose data was written to it.
Absent == 0

\* How inpaint_api.py can end: (returncode, output written). It returns 0
\* after cv2.imwrite, whether or not imwrite stored the file (lines 67-76);
\* it returns 1 from its handler, or dies with a traceback when the model
\* cannot be built, before anything is written.
SubprocessOutcomes ==
    { [rc |-> 0, wrote |-> TRUE], [rc |-> 0, wrote |-> FALSE],
      [rc |-> 1, wrote |-> FALSE] }

\* app.py lines 250-255: the outer handler's response.
Failure(cause) ==
    [success |-> FALSE, message |-> "Inpainting failed: " \o cause, image |-> Absent]

\* app.py lines 243-248
Success(data) ==
    [success |-> TRUE, message |-> "Inpainting completed successfully",
     image |-> data]

\* A plausible slip: the return code not looked at.
CheckRunNoRc(rc, output) ==
    IF output = Absent THEN "500: Inpainting did not produce output file"
    ELSE "ok"

\* app.py lines 215-226: the two checks after subprocess.run.
CheckRun(rc, output) ==
    IF rc # 0 THEN "500: Inpainting failed: stderr"
    ELSE IF output = Absent THEN "500: Inpainting did not produce output file"
    ELSE "ok"

\* A plausible slip: the temp files stay after a success too.
KeptFile(file) == file

\* app.py lines 236-238: path.unlink()
Unlinked(file) == Absent

NoRequest ==
    [id |-> 0, image_ok |-> TRUE, mask_ok |-> TRUE, raised |-> "", ran |-> FALSE,
     rc |-> 0, wrote |-> FALSE, read |-> <<Absent, Absent>>, output |-> Absent]

InpInit ==
    /\ script_exists \in BOOLEAN
    /\ tmp_image = Absent
    /\ tmp_mask = Absent
    /\ tmp_output = Absent
    /\ inp_count = 0
    /\ inp_inflight = {}
    /\ inp_req = NoRequest
    /\ inp_resp = Failure("")
    /\ FwdIdle /\ ClampIdle /\ OcrIdle /\ TrIdle /\ MaskIdle

\* app.py lines 126-127: a request arrives and its two uploads are read.
\* These awaits are the only places where the handler gives the event loop
\* to another request; from line 129 to its return it runs without a break,
\* the subprocess included (subprocess.run blocks the loop).
InpaintArrive ==
    /\ inp_count < MaxInpaintRequests
    /\ inp_count' = inp_count + 1
    /\ inp_inflight' = inp_inflight \cup {inp_count + 1}
    /\ UNCHANGED <<script_exists, tmp_image, tmp_mask, tmp_output, inp_req,
                   inp_resp>>
    /\ UNCHANGED <<fwdVars, clampVars, ocrVars, trVars, maskVars>>

\* app.py lines 136-147: Image.open(image) raises; HTTPException(400) is
\* caught by the outer handler.
InpaintBadImage ==
    /\ \E n \in inp_inflight, mask_ok \in BOOLEAN :
         /\ inp_inflight' = inp_inflight \ {n}
         /\ inp_req' = [NoRequest EXCEPT !.id = n, !.image_ok = FALSE,
                                         !.mask_ok = mask_ok]
    /\ inp_resp' = Failure("400: Invalid image data")
    /\ UNCHANGED <<script_exists, tmp_image, tmp_mask, tmp_output, inp_count>>
    /\ UNCHANGED <<fwdVars, clampVars, ocrVars, trVars, maskVars>>

\* app.py lines 149-159: the image opens, Image.open(mask) raises.
InpaintBadMask ==
    /\ \E n \in inp_inflight :
         /\ inp_inflight' = inp_inflight \ {n}
         /\ inp_req' = [NoRequest EXCEPT !.id = n, !.mask_ok = FALSE]
    /\ inp_resp' = Failure("400: Invalid mask data")
    /\ UNCHANGED <<script_exists, tmp_image, tmp_mask, tmp_output, inp_count>>
    /\ UNCHANGED <<fwdVars, clampVars, ocrVars, trVars, maskVars>>

\* app.py lines 161-188: another exception before the subprocess is run: in
\* np.array or cv2.threshold (nothing written yet), in image_pil.save (the
\* image file is written or not), or in the mask's save (the image file is
\* written, the mask file is written or not).
InpaintPrepareError ==
    /\ \E n \in inp_inflight,
          at \in {"array", "save image", "save mask"}, part \in BOOLEAN :
         /\ inp_inflight' = inp_inflight \ {n}
         /\ script_exists' = (script_exists \/ at # "array")
         /\ tmp_image' = IF at = "array" \/ (at = "save image" /\ ~part)
                         THEN tmp_image ELSE n
         /\ tmp_mask' = IF at = "save mask" /\ part THEN n ELSE tmp_mask
         /\ inp_req' = [NoRequest EXCEPT !.id = n, !.raised = at]
         /\ inp_resp' = Failure(at)
    /\ UNCHANGED <<tmp_output, inp_count>>
    /\ UNCHANGED <<fwdVars, clampVars, ocrVars, trVars, maskVars>>

\* app.py lines 161-248: image and mask decode, the script is created if it
\* is missing, both temp files are written, the subprocess runs to its end
\* on the two files it finds and writes the output or not, and the handler
\* answers: a failure for a non-zero return code or a missing output file
\* (the temp files stay), else the output file's bytes, after which the
\* three temp files are unlinked.
InpaintRun ==
    /\ script_exists' = TRUE
    /\ \E n \in inp_inflight, o \in SubprocessOutcomes :
         LET saved_image == n
             saved_mask == n
             output == IF o.wrote THEN saved_image ELSE tmp_output
             check == CheckRun(o.rc, output)
         IN /\ inp_inflight' = inp_inflight \ {n}
            /\ inp_req' = [NoRequest EXCEPT !.id = n, !.ran = TRUE, !.rc = o.rc,
                                            !.wrote = o.wrote,
                                            !.read = <<saved_image, saved_mask>>,
                                            !.output = output]
            /\ IF check # "ok"
               THEN /\ inp_resp' = Failure(check)
                    /\ tmp_image' = saved_image
                    /\ tmp_mask' = saved_mask
                    /\ tmp_output' = output
               ELSE /\ inp_resp' = Success(output)
                    /\ tmp_image' = Unlinked(saved_image)
                    /\ tmp_mask' = Unlinked(saved_mask)
                    /\ tmp_output' = Unlinked(output)
    /\ UNCHANGED inp_count
    /\ UNCHANGED <<fwdVars, clampVars, ocrVars, trVars, maskVars>>

InpNext ==
    \/ InpaintArrive
    \/ InpaintBadImage
    \/ InpaintBadMask
    \/ InpaintPrepareError
    \/ InpaintRun

SpecInpaint == InpInit /\ [][InpNext]_vars

\* C4: an /inpaint request never returns a partial image. Whenever a step
\* fails (image or mask bytes that do not decode, a non-zero return code of
\* the subprocess, a subprocess that wrote no output file, any other
\* exception) the response has success = false, a message that carries the
\* cause, and no image; a response carries an image only when
\* success = true, which takes a subprocess that returned 0 and an output
\* file that exists, and the image is then the file this run wrote, whole.
C4_NoPartialImage ==
    inp_req.id # 0 =>
        /\ ~inp_req.image_ok => inp_resp = Failure("400: Invalid image data")
        /\ (inp_req.image_ok /\ ~inp_req.mask_ok) =>
               inp_resp = Failure("400: Invalid mask data")
        /\ inp_req.raised # "" => inp_resp = Failure(inp_req.raised)
        /\ (inp_req.ran /\ inp_req.rc # 0) =>
               inp_resp = Failure("500: Inpainting failed: stderr")
        /\ (inp_req.ran /\ inp_req.rc = 0 /\ ~inp_req.wrote) =>
               inp_resp = Failure("500: Inpainting did not produce output file")
        /\ ~inp_resp.success =>
               /\ inp_resp.image = Absent
               /\ inp_resp.message # "Inpainting failed: "
        /\ inp_resp.image # Absent =>
               /\ inp_resp.success
               /\ inp_req.ran
               /\ inp_req.rc = 0
               /\ inp_req.wrote
               /\ inp_req.output # Absent
               /\ inp_resp.image = inp_req.id
        /\ inp_resp.success => inp_resp.image # Absent

\* C4's case: a request, not the first of the process, whose subprocess
\* ended with a non-zero return code; it is answered with a failure and no
\* image, and its temp image and mask stay.
C4_Witness ==
    /\ inp_req.id > 1
    /\ inp_req.ran
    /\ inp_req.rc # 0
    /\ tmp_image = inp_req.id
    /\ tmp_output = Absent
    /\ ~inp_resp.success
    /\ inp_resp.image = Absent
    /\ inp_resp.message = "Inpainting failed: 500: Inpainting failed: stderr"

\* C20: for any sequence or interleaving of /inpaint requests of one server
\* process, the image of a successful response is the output that this
\* request's own subprocess run wrote from this request's own image and
\* mask; no output file is left behind for a later request to find.
C20_OwnOutputReturned ==
    /\ tmp_output = Absent
    /\ (inp_req.id # 0 /\ inp_resp.success) =>
           /\ inp_req.ran
           /\ inp_req.wrote
           /\ inp_req.read = <<inp_req.id, inp_req.id>>
           /\ inp_resp.image = inp_req.id

\* C20's case: a request answered with its own image while a request that
\* arrived before it still waits for the event loop; the three temp files
\* are gone.
C20_Witness ==
    /\ inp_resp.success
    /\ inp_resp.image = inp_req.id
    /\ \E m \in inp_inflight : m < inp_req.id
    /\ tmp_image = Absent

(***************************************************************************)
(* Part 5.  api/app.py translate_text (the /translate handler) and the     *)
(* DeepL backend it posts to                                               *)
(***************************************************************************)

\* Most items in one /translate request.
MaxItems == 2

\* app.py lines 94-96
TranslationItem(id, text) == [id |-> id, text |-> text]

\* The items a request is made of.
TranslationItems ==
    { TranslationItem(id, text) : id \in {"1", "2"}, text \in {"jp_a", "jp_b"} }

\* A plausible slip: original and translated the wrong way round.
TranslationResponseSwapped(id, original, translated) ==
    [id |-> id, original |-> translated, translated |-> original]

\* app.py lines 98-101 and 454-458
TranslationResponse(id, original, translated) ==
    [id |-> id, original |-> original, translated |-> translated]

\* The backend's translation of a text.
DeepL(text) == "en:" \o text

\* One entry of the "translations" list of a reply: {"text": ...} or {}.
Translated(text) == [has_text |-> TRUE, text |-> text]
NoText == [has_text |-> FALSE, text |-> ""]

Reply(status, json, has_translations, translations) ==
    [status |-> status, json |-> json, has_translations |-> has_translations,
     translations |-> translations]

\* What requests.post(...) for one text can come back with: no response at
\* all (status 0: requests raises), a status other than 200, a 200 whose
\* body is no JSON, and a 200 with a JSON object that has no "translations"
\* key, an empty list, an entry without "text", or the translation.
Replies(text) ==
    { Reply(0, FALSE, FALSE, <<>>),
      Reply(403, TRUE, FALSE, <<>>),
      Reply(200, FALSE, FALSE, <<>>),
      Reply(200, TRUE, FALSE, <<>>),
      Reply(200, TRUE, TRUE, <<>>),
      Reply(200, TRUE, TRUE, <<NoText>>),
      Reply(200, TRUE, TRUE, <<Translated(DeepL(text))>>) }

Raised(msg) == [raised |-> msg, text |-> ""]
Returned(text) == [raised |-> "", text |-> text]

\* A plausible slip: an empty translations list taken for an entry without
\* text.
FirstTranslationLenient(translation_data) ==
    LET list == IF translation_data.has_translations
                THEN translation_data.translations ELSE <<NoText>>
    IN IF Len(list) = 0 THEN Returned("Translation error")
       ELSE IF list[1].has_text THEN Returned(list[1].text)
       ELSE Returned("Translation error")

\* app.py line 452:
\* translation_data.get("translations", [{}])[0].get("text", "Translation error")
FirstTranslation(translation_data) ==
    LET list == IF translation_data.has_translations
                THEN translation_data.translations ELSE <<NoText>>
    IN IF Len(list) = 0 THEN Raised("list index out of range")
       ELSE IF list[1].has_text THEN Returned(list[1].text)
       ELSE Returned("Translation error")

\* app.py lines 438-452: what one turn of the loop makes of the reply.
PostOutcome(response) ==
    IF response.status = 0 THEN Raised("ConnectionError")
    ELSE IF response.status # 200 THEN Raised("500: DeepL API error")
    ELSE IF ~response.json THEN Raised("JSONDecodeError")
    ELSE FirstTranslation(response)

\* app.py lines 462-463
TranslationFailed(cause) ==
    [status |-> 500, body |-> <<>>, detail |-> "Translation failed: " \o cause]

NoResponse == [status |-> 0, body |-> <<>>, detail |-> ""]

TrInit ==
    /\ DEEPL_API_KEY \in BOOLEAN
    /\ tr_pc = "idle"
    /\ items = <<>>
    /\ tr_i = 0
    /\ tr_results = <<>>
    /\ tr_posts = <<>>
    /\ tr_replies = <<>>
    /\ tr_resp = NoResponse
    /\ FwdIdle /\ ClampIdle /\ OcrIdle /\ InpIdle /\ MaskIdle

\* app.py lines 425-434: a request with its items; without a key the handler
\* raises at once, else results = [].
TrReceive ==
    /\ tr_pc = "idle"
    /\ items' \in SeqsUpTo(TranslationItems, MaxItems)
    /\ tr_i' = 0
    /\ tr_results' = <<>>
    /\ tr_posts' = <<>>
    /\ tr_replies' = <<>>
    /\ IF ~DEEPL_API_KEY
       THEN /\ tr_resp' = TranslationFailed("500: DeepL API key not configured")
            /\ tr_pc' = "done"
       ELSE /\ tr_resp' = NoResponse
            /\ tr_pc' = "loop"
    /\ UNCHANGED DEEPL_API_KEY
    /\ UNCHANGED <<fwdVars, clampVars, ocrVars, inpVars, maskVars>>

\* app.py lines 436-458: one turn of the loop: the item's text is posted,
\* and the reply either ends the request in the outer handler or gives the
\* item's entry.
TrPost ==
    /\ tr_pc = "loop"
    /\ tr_i < Len(items)
    /\ LET item == items[tr_i + 1]
       IN \E response \in Replies(item.text) :
            LET out == PostOutcome(response)
            IN /\ tr_posts' = Append(tr_posts,
                      [text |-> <<item.text>>, target_lang |-> "EN",
                       source_lang |-> "JA"])
               /\ tr_replies' = Append(tr_replies, response)
               /\ IF out.raised # ""
                  THEN /\ tr_resp' = TranslationFailed(out.raised)
                       /\ tr_pc' = "done"
                       /\ UNCHANGED <<tr_i, tr_results>>
                  ELSE /\ tr_results' = Append(tr_results,
                              TranslationResponse(item.id, item.text, out.text))
                       /\ tr_i' = tr_i + 1
                       /\ UNCHANGED <<tr_pc, tr_resp>>
    /\ UNCHANGED <<DEEPL_API_KEY, items>>
    /\ UNCHANGED <<fwdVars, clampVars, ocrVars, inpVars, maskVars>>

\* app.py line 460: return results
TrReturn ==
    /\ tr_pc = "loop"
    /\ tr_i = Len(items)
    /\ tr_resp' = [status |-> 200, body |-> tr_results, detail |-> ""]
    /\ tr_pc' = "done"
    /\ UNCHANGED <<DEEPL_API_KEY, items, tr_i, tr_results, tr_posts, tr_replies>>
    /\ UNCHANGED <<fwdVars, clampVars, ocrVars, inpVars, maskVars>>

\* The response is on its way and the request's locals are gone.
TrFinish ==
    /\ tr_pc = "done"
    /\ tr_pc' = "idle"
    /\ items' = <<>>
    /\ tr_i' = 0
    /\ tr_results' = <<>>
    /\ tr_posts' = <<>>
    /\ tr_replies' = <<>>
    /\ tr_resp' = NoResponse
    /\ UNCHANGED DEEPL_API_KEY
    /\ UNCHANGED <<fwdVars, clampVars, ocrVars, inpVars, maskVars>>

TrNext ==
    \/ TrReceive
    \/ TrPost
    \/ TrReturn
    \/ TrFinish

SpecTranslate == TrInit /\ [][TrNext]_vars

(***************************************************************************)
(* Claims about part 5                                                     *)
(***************************************************************************)

\* C12: translate_text called with an empty list of items answers with a
\* client error; never with a successful empty result.
C12_EmptyRejected ==
    (tr_pc = "done" /\ Len(items) = 0) =>
        /\ tr_resp.status >= 400
        /\ tr_resp.status <= 499

\* The texts of the request, in input order.
TextsOf(its) == [i \in 1 .. Len(its) |-> its[i].text]

\* C13: a request with n >= 1 items that is answered with its translations
\* made exactly one call to the backend, carrying all n texts in input
\* order.
C13_SingleBatchCall ==
    (tr_pc = "done" /\ tr_resp.status = 200 /\ Len(items) >= 1) =>
        /\ Len(tr_posts) = 1
        /\ tr_posts[1].text = TextsOf(items)

\* The backend answered with a non-success status (or not at all), or with
\* fewer translations than the texts it was sent.
BackendFailed(response) ==
    \/ response.status # 200
    \/ /\ response.json
       /\ response.has_translations
       /\ Len(response.translations) = 0

\* C14: translation is all-or-nothing: if the backend answered for any item
\* with a non-success status or with an empty translations list, the whole
\* call fails with a server error and carries no item, whatever was
\* translated before in the same call.
C14_AllOrNothing ==
    (tr_pc = "done" /\ \E j \in 1 .. Len(tr_replies) : BackendFailed(tr_replies[j]))
        => /\ tr_resp.status = 500
           /\ tr_resp.body = <<>>

\* C14's case: the first item was translated, the backend answered the
\* second with an empty translations list, and the call failed with
\* nothing in its body.
C14_Witness ==
    /\ tr_pc = "done"
    /\ Len(items) = 2
    /\ Len(tr_replies) = 2
    /\ ~BackendFailed(tr_replies[1])
    /\ tr_replies[2] = Reply(200, TRUE, TRUE, <<>>)
    /\ Len(tr_results) = 1
    /\ tr_results[1].translated = DeepL(items[1].text)
    /\ tr_resp.status = 500
    /\ tr_resp.body = <<>>

\* The reply's payload carries a translated text for the item.
CarriesText(response) ==
    /\ response.has_translations
    /\ Len(response.translations) > 0
    /\ response.translations[1].has_text

\* C15: whenever translate_text succeeds for n items it returns exactly n
\* entries in input order, and entry i is {id_i, text_i, t_i}, with t_i the
\* backend's translation of text_i, or "Translation error" when the success
\* payload for that item carries no translated text.
C15_OneEntryPerItem ==
    (tr_pc = "done" /\ tr_resp.status = 200) =>
        /\ Len(tr_resp.body) = Len(items)
        /\ Len(tr_replies) = Len(items)
        /\ \A i \in 1 .. Len(items) :
             /\ tr_posts[i].text = <<items[i].text>>
             /\ tr_resp.body[i] =
                    [id |-> items[i].id,
                     original |-> items[i].text,
                     translated |-> IF CarriesText(tr_replies[i])
                                    THEN DeepL(items[i].text)
                                    ELSE "Translation error"]

\* C15's case: a successful call for two items with different ids and
\* texts, the first translated, the second answered without a text.
C15_Witness ==
    /\ tr_pc = "done"
    /\ tr_resp.status = 200
    /\ Len(items) = 2
    /\ items[1].id # items[2].id
    /\ items[1].text # items[2].text
    /\ tr_resp.body[1].translated = DeepL(items[1].text)
    /\ ~CarriesText(tr_replies[2])
    /\ tr_resp.body[2].translated = "Translation error"

(***************************************************************************)
(* Part 6.  api/app.py inpaint_image, lines 161-170: the mask is made      *)
(* binary                                                                  *)
(***************************************************************************)

\* Most pixels of a mask.
MaxMaskPixels == 2

\* The uint8 values a channel takes: the ends of the range and the two
\* values around the threshold.
PixelLevels == {0, 127, 128, 255}

\* The decoded masks: mode "L" with one value a pixel, mode "RGB" with
\* three.
GrayMasks ==
    { [mode |-> "L", px |-> px] :
        px \in UNION { [1 .. n -> PixelLevels] : n \in 1 .. MaxMaskPixels } }

RGBMasks ==
    { [mode |-> "RGB", px |-> px] :
        px \in UNION { [1 .. n -> PixelLevels \X PixelLevels \X PixelLevels] :
                         n \in 1 .. MaxMaskPixels } }

\* app.py line 167: np.mean(mask_np, axis=2).astype(np.uint8) on one pixel;
\* the float mean is cut to a whole number.
mean_uint8(p) == (p[1] + p[2] + p[3]) \div 3

\* A plausible slip: a mask of 0 and 1.
ThresholdToOne(v, thresh, maxval) == IF v > thresh THEN 1 ELSE 0

\* cv2.threshold(src, thresh, maxval, cv2.THRESH_BINARY) on one value
threshold(v, thresh, maxval) == IF v > thresh THEN maxval ELSE 0

\* app.py lines 163-170
NormalizeMask(mask) ==
    LET gray == IF mask.mode = "RGB"
                THEN [i \in 1 .. Len(mask.px) |-> mean_uint8(mask.px[i])]
                ELSE mask.px
    IN [mode |-> "L",
        px |-> [i \in 1 .. Len(gray) |-> threshold(gray[i], 127, 255)]]

MaskInit ==
    /\ mask_pc = "input"
    /\ mask_pil \in GrayMasks \cup RGBMasks
    /\ mask_np = [mode |-> "L", px |-> <<>>]
    /\ FwdIdle /\ ClampIdle /\ OcrIdle /\ InpIdle /\ TrIdle

\* app.py lines 163-170 on the request's mask.
MaskNormalize ==
    /\ mask_pc = "input"
    /\ mask_np' = NormalizeMask(mask_pil)
    /\ mask_pc' = "normalized"
    /\ UNCHANGED mask_pil
    /\ UNCHANGED <<fwdVars, clampVars, ocrVars, inpVars, trVars>>

\* The same lines on a request whose mask is the mask that was made binary.
MaskNormalizeAgain ==
    /\ mask_pc = "normalized"
    /\ mask_pil' = mask_np
    /\ mask_np' = NormalizeMask(mask_np)
    /\ mask_pc' = "again"
    /\ UNCHANGED <<fwdVars, clampVars, ocrVars, inpVars, trVars>>

MaskNext ==
    \/ MaskNormalize
    \/ MaskNormalizeAgain

SpecMask == MaskInit /\ [][MaskNext]_vars

IsBinary(mask) ==
    /\ mask.mode = "L"
    /\ \A i \in 1 .. Len(mask.px) : mask.px[i] \in {0, 255}

\* C17: the mask normalization of the /inpaint handler maps every pixel of
\* a grayscale or RGB mask to exactly 0 or 255, one value a pixel, and it
\* is idempotent: a mask whose pixels are all 0 or 255 comes out the same.
C17_BinaryAndIdempotent ==
    mask_pc \in {"normalized", "again"} =>
        /\ mask_np.mode = "L"
        /\ Len(mask_np.px) = Len(mask_pil.px)
        /\ \A i \in 1 .. Len(mask_np.px) : mask_np.px[i] \in {0, 255}
        /\ IsBinary(mask_pil) => mask_np = mask_pil
        /\ mask_pc = "again" => mask_np = mask_pil

\* C17's case: a mask of a black and a white pixel, itself the outcome of
\* the normalization, was normalized again and came out the same.
C17_Witness ==
    /\ mask_pc = "again"
    /\ mask_pil.px = <<0, 255>>
    /\ mask_np.px = <<0, 255>>

====
